---- MODULE Spec2Model ----
(***************************************************************************)
(* One chat turn of the Shopify assistant in src/api/chat.js.  The file    *)
(* holds two variants of the same program: the Vercel serverless function  *)
(* (lines 1-221) and the Express server (lines 223-587).  Both are         *)
(* modelled; definitions of the first end in Vercel, of the second in      *)
(* Express.  A behaviour is one request: the handler runs from one await   *)
(* to the next, and the two external services (the model API and the       *)
(* commerce GraphQL endpoint) answer nondeterministically.                 *)
(***************************************************************************)
EXTENDS Integers, Sequences, FiniteSets, TLC

\* ------------------------------------------------------------------ bounds
\* Sizes of what the store holds: each exceeds the `first:` of its query.
MaxProducts == 6
MaxCustomers == 2
MaxOrders == 6
MaxItems == 6
MaxFulfillments == 2

\* --------------------------------------------------------------- JS values
\* A JavaScript value is a record tagged with its type.
Undefined == [js |-> "undefined"]
Null == [js |-> "null"]
Str(s) == [js |-> "string", v |-> s]
Num(n) == [js |-> "number", v |-> n]
Arr(s) == [js |-> "array", v |-> s]
\* An object is its set of <<key, value>> pairs.
Obj(pairs) == [js |-> "object", v |-> pairs]

\* ToBoolean: what `!x`, `x ? a : b`, `x || y` and `if (x)` test.  (A record
\* without a tag is an object of the GraphQL answer.)
Truthy(x) ==
    IF "js" \notin DOMAIN x THEN TRUE ELSE
    CASE x.js = "undefined" -> FALSE
      [] x.js = "null" -> FALSE
      [] x.js = "string" -> x.v # ""
      [] x.js = "number" -> x.v # 0
      [] OTHER -> TRUE

\* Property read obj[key] on an object of own properties only.
Get(obj, key) ==
    IF obj.js = "object" /\ \E p \in obj.v : p[1] = key
    THEN (CHOOSE p \in obj.v : p[1] = key)[2]
    ELSE Undefined

\* Destructuring a parameter `{ a }` throws a TypeError on null and undefined.
CanDestructure(x) == x.js \notin {"undefined", "null"}

\* An error message: its fixed text and the JSON it embeds (or Undefined).
Msg(text, json) == [text |-> text, json |-> json]

\* What an operation gives: a thrown Error (with its message) or a value.
Throw(m) == [thrown |-> TRUE, message |-> m]
Return(x) == [thrown |-> FALSE, value |-> x]

\* ----------------------------------------------------------- JSON.parse
ArgsCoffee == "{\"query\":\"coffee\"}"
ArgsEmail == "{\"email\":\"ann@example.com\"}"

\* JSON.parse on the argument values the model may send.  A value that is
\* not a string is converted to one first ("undefined" is not JSON).
JSONParse(a) ==
    IF a.js # "string" THEN Throw(Msg("SyntaxError", Undefined))
    ELSE CASE a.v = "{}" -> Return(Obj({}))
           [] a.v = ArgsCoffee -> Return(Obj({<<"query", Str("coffee")>>}))
           [] a.v = ArgsEmail -> Return(Obj({<<"email", Str("ann@example.com")>>}))
           [] a.v = "null" -> Return(Null)
           [] a.v = "1" -> Return(Num(1))
           [] OTHER -> Throw(Msg("SyntaxError", Undefined))

\* ------------------------------------------------------------ environment
SHOPIFY_STORE_values == {Undefined, Str("shop.myshopify.com")}
SHOPIFY_TOKEN_values == {Undefined, Str("shpat_1")}

\* req.body.message as it arrives: no field, "", a string, numbers, an object.
Messages == {Undefined, Str(""), Str("show me coffee products"), Num(0), Num(42),
             Obj({})}
\* req.body: absent, or an object with the message (Undefined: no such field).
Bodies == {Undefined} \cup {Obj({<<"message", m>>}) : m \in Messages \ {Undefined}}
              \cup {Obj({})}

\* The names the model may put in function_call.name.
ToolNames == {"find_product", "get_customer_orders", "get_products",
              "get_inventory_level", "toString", "constructor", "hasOwnProperty",
              "__proto__"}
Catalog == {"find_product", "get_customer_orders", "get_products"}
\* function_call.arguments as the model may send it.
ArgValues == {Undefined, Str(""), Str("{}"), Str(ArgsCoffee), Str(ArgsEmail),
              Str("null"), Str("1"), Str("{bad")}

VARIABLES
    variant,        \* "vercel" | "express": which program serves the request
    SHOPIFY_STORE,  \* process.env.SHOPIFY_STORE
    SHOPIFY_TOKEN,  \* process.env.SHOPIFY_TOKEN
    req,            \* [method, body]
    pc,             \* where the handler is
    calls,          \* outbound calls made so far, in order
    first,          \* the model's first answer (once received)
    fn,             \* the tool being executed: [name, args, query]
    fetched,        \* the commerce endpoint's answer (once received)
    data,           \* the tool's result (once computed)
    second,         \* the model's second answer (once received)
    err,            \* the error caught by the handler, or Undefined
    res             \* the HTTP response: [status, body]

vars == <<variant, SHOPIFY_STORE, SHOPIFY_TOKEN, req, pc, calls, first, fn,
          fetched, data, second, err, res>>

Init ==
    /\ variant \in {"vercel", "express"}
    \* The environment is read once, at start: configured, or with the store
    \* domain, the token or both missing.
    /\ \/ /\ SHOPIFY_STORE = Str("shop.myshopify.com")
          /\ SHOPIFY_TOKEN = Str("shpat_1")
       \/ /\ SHOPIFY_STORE \in SHOPIFY_STORE_values
          /\ SHOPIFY_TOKEN \in SHOPIFY_TOKEN_values
          /\ Undefined \in {SHOPIFY_STORE, SHOPIFY_TOKEN}
    \* Express routes only POST /chat to the handler (app.post).
    /\ req \in [method : {"POST", "GET"}, body : Bodies]
    /\ (variant = "express" => req.method = "POST")
    /\ pc = "start"
    /\ calls = <<>>
    /\ first = Undefined
    /\ fn = Undefined
    /\ fetched = Undefined
    /\ data = Undefined
    /\ second = Undefined
    /\ err = Undefined
    /\ res = Undefined

\* ------------------------------------------------- request validation
\* `const { message } = req.body || {}` (an absent body reads as {}).
messageVercel(r) == Get(IF Truthy(r.body) THEN r.body ELSE Obj({}), "message")

\* `typeof message !== 'string' || !message` is what the handler rejects.
validMessageVercel(m) == ~(m.js # "string" \/ ~Truthy(m))

\* `req.body?.message`.
messageExpress(r) == IF r.body \in {Undefined, Null} THEN Undefined
                     ELSE Get(r.body, "message")

\* `if (!userMessage)` is what the handler rejects.
validMessageExpress(m) == ~(~Truthy(m))

\* ------------------------------------------------- tool dispatch
Fn(name) == [js |-> "function", v |-> name]

\* functionMap[name]: an object literal with three own properties; any other
\* key is read from Object.prototype, which it inherits.
functionMap(name) ==
    CASE name = "find_product" -> Fn("findProduct")
      [] name = "get_customer_orders" -> Fn("getCustomerOrders")
      [] name = "get_products" -> Fn("getProducts")
      [] name = "toString" -> Fn("Object.prototype.toString")
      [] name = "constructor" -> Fn("Object")
      [] name = "hasOwnProperty" -> Fn("Object.prototype.hasOwnProperty")
      [] name = "__proto__" -> Obj({})
      [] OTHER -> Undefined

\* `args ? JSON.parse(args) : {}`.
parsedArgsVercel(args) == IF Truthy(args) THEN JSONParse(args) ELSE Return(Obj({}))

\* Mutant of parsedArgsExpress: the catch keeps the default `{}` and goes on.
parsedArgsExpress_swallow(args) ==
    IF JSONParse(args).thrown THEN Return(Obj({})) ELSE JSONParse(args)

\* `try { parsedArgs = JSON.parse(args) } catch (err) { throw new Error(...) }`.
parsedArgsExpress(args) ==
    IF JSONParse(args).thrown
    THEN Throw(Msg("Failed to parse function arguments: ", args))
    ELSE JSONParse(args)

\* `if (!fn) throw new Error(...)`, the Express handler's check of the lookup.
fnCheckExpress(f, name) ==
    IF ~Truthy(f) THEN Throw(Msg("Function is not implemented: ", Str(name)))
    ELSE Return(f)

\* ------------------------------------------------- GraphQL documents
\* Each document by its root field, the `first:` of each connection and the
\* fields asked of a product node.
findProductGqlVercel ==
    [root |-> "products", first |-> 5,
     fields |-> {"id", "title", "description", "images", "priceRange"}]

getCustomerOrdersGqlVercel ==
    [root |-> "customers", first |-> 1, orders |-> 5, fulfillments |-> 1,
     trackingInfo |-> 5, lineItems |-> 5]

getProductsGqlVercel ==
    [root |-> "products", first |-> 5, fields |-> {"id", "title"}]

findProductGqlExpress ==
    [root |-> "products", first |-> 5,
     fields |-> {"id", "title", "description", "images", "priceRange"}]

\* Mutant of getCustomerOrdersGqlExpress: the orders connection asks for 50.
getCustomerOrdersGqlExpress_fifty ==
    [root |-> "customers", first |-> 1, orders |-> 50, fulfillments |-> 1,
     trackingInfo |-> 5, lineItems |-> 5]

getCustomerOrdersGqlExpress ==
    [root |-> "customers", first |-> 1, orders |-> 5, fulfillments |-> 1,
     trackingInfo |-> 5, lineItems |-> 5]

getProductsGqlExpress ==
    [root |-> "products", first |-> 5,
     fields |-> {"id", "title", "description", "priceRange"}]

\* ------------------------------------------------- callShopify
\* The Express callShopify checks the credentials before it fetches.
credentialsCheckExpress(store, token) ==
    IF ~Truthy(store) \/ ~Truthy(token)
    THEN Throw(Msg("Shopify store credentials are not set in environment variables",
                   Undefined))
    ELSE Return(Undefined)

\* The Vercel callShopify has no such check: it always goes on to fetch.
credentialsCheckVercel(store, token) == Return(Undefined)

\* `await fetch(...)` rejects on a network failure and resolves on any HTTP
\* status; `await res.json()` rejects when the body is not JSON.
fetchJson(o) ==
    IF o.kind = "rejects" THEN Throw(Msg("FetchError: request failed", Undefined))
    ELSE IF ~o.body.parses THEN Throw(Msg("FetchError: invalid json response body",
                                         Undefined))
    ELSE Return(o.body)

\* Mutant of callShopifyVercel: only a non-empty `errors` list throws.
callShopifyVercel_nonEmpty(o) ==
    IF fetchJson(o).thrown THEN fetchJson(o)
    ELSE IF /\ fetchJson(o).value.errors.js = "array"
            /\ Len(fetchJson(o).value.errors.v) > 0
         THEN Throw(Msg("", fetchJson(o).value.errors))
         ELSE Return(fetchJson(o).value.data)

\* Vercel: `if (json.errors) throw new Error(JSON.stringify(json.errors));
\* return json.data`.
callShopifyVercel(o) ==
    IF fetchJson(o).thrown THEN fetchJson(o)
    ELSE IF Truthy(fetchJson(o).value.errors)
         THEN Throw(Msg("", fetchJson(o).value.errors))
         ELSE Return(fetchJson(o).value.data)

\* Express: `if (data.errors) throw new Error(`Shopify API error: ...`);
\* return data` (the whole body).
callShopifyExpress(o) ==
    IF fetchJson(o).thrown THEN fetchJson(o)
    ELSE IF Truthy(fetchJson(o).value.errors)
         THEN Throw(Msg("Shopify API error: ", fetchJson(o).value.errors))
         ELSE Return(fetchJson(o).value)

\* ------------------------------------------------- reshaping
\* Optional chaining x?.field on a GraphQL object (a record), null or undefined.
Opt(x, field) == IF x \in {Undefined, Null} THEN Undefined ELSE x[field]

\* `x || []`.
OrEmpty(x) == IF Truthy(x) THEN x ELSE Arr(<<>>)

\* Array.prototype.map over an Arr `a` with callback f is written
\* Arr([i \in 1..Len(a.v) |-> f(a.v[i])]).

\* `node.images.edges[0]?.node || null`.
firstImage(node) ==
    IF Len(node.images.edges.v) = 0 THEN Null
    ELSE IF Truthy(node.images.edges.v[1].node) THEN node.images.edges.v[1].node
    ELSE Null

productVercel(edge) ==
    [id |-> edge.node.id, title |-> edge.node.title,
     description |-> edge.node.description,
     image |-> firstImage(edge.node),
     price |-> edge.node.priceRange.minVariantPrice.amount,
     currency |-> edge.node.priceRange.minVariantPrice.currencyCode]

\* findProduct after callShopify returned `data`: a bare array of products.
findProductVercel(d) ==
    Arr([i \in 1..Len(OrEmpty(Opt(Opt(d, "products"), "edges")).v) |->
            productVercel(OrEmpty(Opt(Opt(d, "products"), "edges")).v[i])])

productListedVercel(edge) == [id |-> edge.node.id, title |-> edge.node.title]

\* getProducts after callShopify returned `data`.
getProductsVercel(d) ==
    Arr([i \in 1..Len(OrEmpty(Opt(Opt(d, "products"), "edges")).v) |->
            productListedVercel(OrEmpty(Opt(Opt(d, "products"), "edges")).v[i])])

trackingOf(t) == [company |-> t.company, number |-> t.number, url |-> t.url]

fulfillmentOf(f) ==
    [status |-> f.status, estimatedDeliveryAt |-> f.estimatedDeliveryAt,
     tracking |-> Arr([i \in 1..Len(f.trackingInfo.v) |-> trackingOf(f.trackingInfo.v[i])])]

lineItemOf(edge) == [title |-> edge.node.title, quantity |-> edge.node.quantity]

orderOf(edge) ==
    [id |-> edge.node.id, name |-> edge.node.name,
     processedAt |-> edge.node.processedAt,
     total |-> edge.node.totalPriceSet.shopMoney.amount,
     currency |-> edge.node.totalPriceSet.shopMoney.currencyCode,
     fulfillments |-> Arr([i \in 1..Len(edge.node.fulfillments.v) |->
                              fulfillmentOf(edge.node.fulfillments.v[i])]),
     items |-> Arr([i \in 1..Len(edge.node.lineItems.edges.v) |->
                       lineItemOf(edge.node.lineItems.edges.v[i])])]

\* `data?.customers?.edges?.[0]?.node`.
firstCustomerVercel(d) ==
    IF ~Truthy(Opt(Opt(d, "customers"), "edges")) THEN Undefined
    ELSE IF Len(Opt(Opt(d, "customers"), "edges").v) = 0 THEN Undefined
    ELSE Opt(Opt(Opt(d, "customers"), "edges").v[1], "node")

\* Mutant of getCustomerOrdersVercel: without the `if (!customer)` guard the
\* absent customer itself is what comes back.
getCustomerOrdersVercel_noGuard(d) ==
    IF ~Truthy(firstCustomerVercel(d)) THEN firstCustomerVercel(d)
    ELSE Arr([i \in 1..Len(firstCustomerVercel(d).orders.edges.v) |->
                 orderOf(firstCustomerVercel(d).orders.edges.v[i])])

\* getCustomerOrders after callShopify returned `data`: the first customer's
\* orders as a bare array, [] when there is no customer.
getCustomerOrdersVercel(d) ==
    IF ~Truthy(firstCustomerVercel(d)) THEN Arr(<<>>)
    ELSE Arr([i \in 1..Len(firstCustomerVercel(d).orders.edges.v) |->
                 orderOf(firstCustomerVercel(d).orders.edges.v[i])])

\* Mutant of productExpress: the product's image is never read.
productExpress_noImage(edge) ==
    [id |-> edge.node.id, title |-> edge.node.title,
     description |-> edge.node.description,
     price |-> edge.node.priceRange.minVariantPrice.amount,
     currency |-> edge.node.priceRange.minVariantPrice.currencyCode,
     image |-> Null]

productExpress(edge) ==
    [id |-> edge.node.id, title |-> edge.node.title,
     description |-> edge.node.description,
     price |-> edge.node.priceRange.minVariantPrice.amount,
     currency |-> edge.node.priceRange.minVariantPrice.currencyCode,
     image |-> firstImage(edge.node)]

\* findProduct after callShopify returned the body: `{ products }`.
findProductExpress(r) ==
    [products |->
        Arr([i \in 1..Len(OrEmpty(Opt(Opt(Opt(r, "data"), "products"), "edges")).v) |->
                productExpress(OrEmpty(Opt(Opt(Opt(r, "data"), "products"), "edges")).v[i])])]

productListedExpress(edge) ==
    [id |-> edge.node.id, title |-> edge.node.title,
     description |-> edge.node.description,
     price |-> edge.node.priceRange.minVariantPrice.amount,
     currency |-> edge.node.priceRange.minVariantPrice.currencyCode]

\* getProducts: `result?.data?.products?.edges?.map(...) || []`.
getProductsExpress(r) ==
    [products |->
        IF Opt(Opt(Opt(r, "data"), "products"), "edges") \in {Undefined, Null}
        THEN Arr(<<>>)
        ELSE Arr([i \in 1..Len(Opt(Opt(Opt(r, "data"), "products"), "edges").v) |->
                     productListedExpress(Opt(Opt(Opt(r, "data"), "products"), "edges").v[i])])]

\* `${node.firstName || ''} ${node.lastName || ''}`.trim(), on names that are
\* a first name, a last name, both or neither.
fullName(node) ==
    IF Truthy(node.firstName) /\ Truthy(node.lastName)
    THEN Str("Ann Lee")
    ELSE IF Truthy(node.firstName) THEN node.firstName
    ELSE IF Truthy(node.lastName) THEN node.lastName
    ELSE Str("")

customerOf(edge) ==
    [id |-> edge.node.id, name |-> fullName(edge.node), email |-> edge.node.email,
     orders |-> Arr([i \in 1..Len(edge.node.orders.edges.v) |->
                        orderOf(edge.node.orders.edges.v[i])])]

\* getCustomerOrders: `result?.data?.customers?.edges?.map(...) || []`.
getCustomerOrdersExpress(r) ==
    [customers |->
        IF Opt(Opt(Opt(r, "data"), "customers"), "edges") \in {Undefined, Null}
        THEN Arr(<<>>)
        ELSE Arr([i \in 1..Len(Opt(Opt(Opt(r, "data"), "customers"), "edges").v) |->
                     customerOf(Opt(Opt(Opt(r, "data"), "customers"), "edges").v[i])])]

\* ------------------------------------------------- the commerce endpoint
\* The store answers a document as GraphQL does: a connection asked with
\* `first: n` yields the first n of what matches, in the store's order, and
\* a node carries the fields the document asks for.
Min(a, b) == IF a < b THEN a ELSE b

StoreProduct(i) ==
    [id |-> i, title |-> i, description |-> Null,
     images |-> [edges |-> IF i % 2 = 1
                           THEN Arr(<<[node |-> [url |-> i, altText |-> Null]]>>)
                           ELSE Arr(<<>>)],
     priceRange |-> [minVariantPrice |-> [amount |-> "19.99", currencyCode |-> "USD"]]]

\* A store is what matches the query: how many products, customers, orders of
\* each customer, fulfillments of each order, and line items / tracking
\* entries of each order / fulfillment.
Stores ==
    [products : 0..MaxProducts, customers : 0..MaxCustomers, orders : 0..MaxOrders,
     fulfillments : 0..MaxFulfillments, items : 0..MaxItems]

ProductsData(gql, st) ==
    [products |->
        [edges |-> Arr([i \in 1..Min(gql.first, st.products) |->
                          [node |-> [f \in gql.fields |-> StoreProduct(i)[f]]]])]]

StoreOrder(gql, st, i) ==
    [id |-> i, name |-> i, processedAt |-> Null,
     totalPriceSet |-> [shopMoney |-> [amount |-> "42.00", currencyCode |-> "USD"]],
     fulfillments |->
        Arr([k \in 1..Min(gql.fulfillments, st.fulfillments) |->
                [status |-> "SUCCESS", estimatedDeliveryAt |-> Null,
                 trackingInfo |->
                    Arr([t \in 1..Min(gql.trackingInfo, st.items) |->
                            [company |-> "UPS", number |-> t, url |-> Null]])]]),
     lineItems |->
        [edges |-> Arr([l \in 1..Min(gql.lineItems, st.items) |->
                          [node |-> [title |-> l, quantity |-> 1]]])]]

CustomersData(gql, st) ==
    [customers |->
        [edges |->
            Arr([c \in 1..Min(gql.first, st.customers) |->
                    [node |->
                        [id |-> c, firstName |-> Str("Ann"), lastName |-> Null,
                         email |-> "ann@example.com",
                         orders |->
                            [edges |-> Arr([i \in 1..Min(gql.orders, st.orders) |->
                                              [node |-> StoreOrder(gql, st, i)]])]]]])]]

GraphQLData(gql, st) ==
    IF gql.root = "products" THEN ProductsData(gql, st) ELSE CustomersData(gql, st)

\* The `errors` member of a body: absent, null, a list (empty or not), a string.
ErrorsValues == {Undefined, Null, Arr(<<>>), Arr(<<"Throttled">>), Str("Not Found")}

\* The bodies the endpoint may send: not JSON; JSON with `errors` and no data;
\* JSON with data (or with none, or with a null root field).
BodiesFor(gql) ==
    {[parses |-> FALSE]}
    \cup {[parses |-> TRUE, errors |-> e, data |-> Undefined] : e \in ErrorsValues}
    \cup {[parses |-> TRUE, errors |-> Undefined, data |-> Null]}
    \cup {[parses |-> TRUE, errors |-> Undefined, data |-> [products |-> Null, customers |-> Null]]}
    \cup {[parses |-> TRUE, errors |-> Undefined,
           data |-> [products |-> [edges |-> Undefined],
                     customers |-> [edges |-> Undefined]]]}
    \cup {[parses |-> TRUE, errors |-> Undefined, data |-> GraphQLData(gql, st)] :
            st \in {s \in Stores : IF gql.root = "products"
                                   THEN s.customers = 0 /\ s.orders = 0
                                        /\ s.fulfillments = 0 /\ s.items = 0
                                   ELSE s.products = 0}}

\* fetch's outcomes: a rejection (network failure), or a response of some status.
FetchOutcomes(gql) ==
    {[kind |-> "rejects"]}
    \cup [kind : {"resolves"}, status : {200, 500}, body : BodiesFor(gql)]

\* ------------------------------------------------- the model API
\* openai.chat.completions.create: rejects, or resolves with choices.
ChatMessages ==
    {[content |-> Str("Hello!"), function_call |-> Undefined]}
    \cup {[content |-> Null,
           function_call |-> [js |-> "object", name |-> n, arguments |-> a]] :
            n \in ToolNames, a \in ArgValues}

FirstOutcomes ==
    {[kind |-> "rejects"], [kind |-> "resolves", choices |-> <<>>]}
    \cup {[kind |-> "resolves", choices |-> <<[message |-> m]>>] : m \in ChatMessages}

SecondOutcomes ==
    {[kind |-> "rejects"], [kind |-> "resolves", choices |-> <<>>],
     [kind |-> "resolves",
      choices |-> <<[message |-> [content |-> Str("Here is what I found."),
                                  function_call |-> Undefined]]>>]}

\* `(await create(...)).choices[0].message`: the message, or what is thrown.
firstMessage(o) ==
    IF o.kind = "rejects" THEN Throw(Msg("APIError: request failed", Undefined))
    ELSE IF Len(o.choices) = 0
         THEN Throw(Msg("TypeError: Cannot read properties of undefined", Undefined))
         ELSE Return(o.choices[1].message)

\* ------------------------------------------------- executing a tool
\* What a call gives up to its first await: a throw, a value returned at
\* once, or a fetch now in flight.
Fetching(tool, gql) == [thrown |-> FALSE, fetch |-> TRUE, tool |-> tool, gql |-> gql]
Value(x) == [thrown |-> FALSE, fetch |-> FALSE, value |-> x]

\* callShopify(gql, variables) up to `await fetch(...)`.
callShopifyStart(v, tool, gql, store, token) ==
    IF v = "express" /\ credentialsCheckExpress(store, token).thrown
    THEN credentialsCheckExpress(store, token)
    ELSE IF v = "vercel" /\ credentialsCheckVercel(store, token).thrown
    THEN credentialsCheckVercel(store, token)
    ELSE Fetching(tool, gql)

\* `fn(parsedArgs)`: fn is whatever functionMap[name] gave.  findProduct and
\* getCustomerOrders destructure their parameter; getProducts takes none; the
\* functions inherited from Object.prototype are called with `this` undefined.
callFn(v, f, a, store, token) ==
    IF f.js # "function" THEN Throw(Msg("TypeError: fn is not a function", Undefined))
    ELSE CASE f.v = "findProduct" ->
                IF ~CanDestructure(a)
                THEN Throw(Msg("TypeError: Cannot destructure property", Undefined))
                ELSE callShopifyStart(v, f.v,
                        IF v = "vercel" THEN findProductGqlVercel
                        ELSE findProductGqlExpress, store, token)
           [] f.v = "getCustomerOrders" ->
                IF ~CanDestructure(a)
                THEN Throw(Msg("TypeError: Cannot destructure property", Undefined))
                ELSE callShopifyStart(v, f.v,
                        IF v = "vercel" THEN getCustomerOrdersGqlVercel
                        ELSE getCustomerOrdersGqlExpress, store, token)
           [] f.v = "getProducts" ->
                callShopifyStart(v, f.v,
                        IF v = "vercel" THEN getProductsGqlVercel
                        ELSE getProductsGqlExpress, store, token)
           [] f.v = "Object.prototype.toString" -> Value(Str("[object Undefined]"))
           [] f.v = "Object" -> Value(IF CanDestructure(a) THEN a ELSE Obj({}))
           [] OTHER ->
                Throw(Msg("TypeError: Cannot convert undefined or null to object",
                          Undefined))

\* runAssistant from `reply.function_call` being set to `await fn(parsedArgs)`.
dispatchVercel(fc, store, token) ==
    IF parsedArgsVercel(fc.arguments).thrown THEN parsedArgsVercel(fc.arguments)
    ELSE callFn("vercel", functionMap(fc.name), parsedArgsVercel(fc.arguments).value,
                store, token)

\* The /chat handler from `message.function_call` being set to `await fn(...)`.
dispatchExpress(fc, store, token) ==
    IF parsedArgsExpress(fc.arguments).thrown THEN parsedArgsExpress(fc.arguments)
    ELSE IF fnCheckExpress(functionMap(fc.name), fc.name).thrown
    THEN fnCheckExpress(functionMap(fc.name), fc.name)
    ELSE callFn("express", functionMap(fc.name), parsedArgsExpress(fc.arguments).value,
                store, token)

\* The tool from the fetch's outcome to its return value.
toolResult(v, tool, o) ==
    IF v = "vercel"
    THEN IF callShopifyVercel(o).thrown THEN callShopifyVercel(o)
         ELSE CASE tool = "findProduct" -> Return(findProductVercel(callShopifyVercel(o).value))
                [] tool = "getCustomerOrders" ->
                        Return(getCustomerOrdersVercel(callShopifyVercel(o).value))
                [] OTHER -> Return(getProductsVercel(callShopifyVercel(o).value))
    ELSE IF callShopifyExpress(o).thrown THEN callShopifyExpress(o)
         ELSE CASE tool = "findProduct" -> Return(findProductExpress(callShopifyExpress(o).value))
                [] tool = "getCustomerOrders" ->
                        Return(getCustomerOrdersExpress(callShopifyExpress(o).value))
                [] OTHER -> Return(getProductsExpress(callShopifyExpress(o).value))

\* ------------------------------------------------- responses
\* res.status(s).json(obj): JSON.stringify leaves out undefined members.
json(status, pairs) == [status |-> status, body |-> Obj({p \in pairs : p[2] # Undefined})]

Has(body, key) == \E p \in body.v : p[1] = key

\* `catch (err) { res.status(500).json({ error: err.message }) }`.
caught(m) == json(500, {<<"error", m>>})

\* Mutant of replyOnly: the response always carries a `data` member.
replyOnly_withData(msg) == json(200, {<<"reply", msg.content>>, <<"data", Null>>})

\* `{ reply: reply.content }`.
replyOnly(msg) == json(200, {<<"reply", msg.content>>})

\* Mutant of replyWithData: the tool's data is left out of the response.
replyWithData_noData(msg, d) == json(200, {<<"reply", msg.content>>})

\* `{ reply: second.choices[0].message.content, data }`.
replyWithData(msg, d) == json(200, {<<"reply", msg.content>>, <<"data", d>>})

\* ------------------------------------------------- the handler's steps
Fail(m) ==
    /\ err' = m
    /\ res' = caught(m)
    /\ pc' = "done"

\* From the request's arrival to the first `await openai...create(...)`.
Request ==
    /\ pc = "start"
    /\ IF variant = "vercel" /\ req.method # "POST"
       THEN /\ res' = json(405, {<<"error", Str("Method not allowed")>>})
            /\ pc' = "done"
            /\ UNCHANGED calls
       ELSE IF \/ variant = "vercel" /\ ~validMessageVercel(messageVercel(req))
               \/ variant = "express" /\ ~validMessageExpress(messageExpress(req))
       THEN /\ res' = json(400, {<<"error",
                    IF variant = "vercel"
                    THEN Str("Request body must include a message string.")
                    ELSE Str("Request body must include a message field.")>>})
            /\ pc' = "done"
            /\ UNCHANGED calls
       ELSE /\ calls' = Append(calls, "model")
            /\ pc' = "first"
            /\ UNCHANGED res
    /\ UNCHANGED <<variant, SHOPIFY_STORE, SHOPIFY_TOKEN, req, first, fn, fetched,
                   data, second, err>>

\* The tool gave `d`: the second `await openai...create(...)` is issued.
AskAgain(d) ==
    /\ data' = d
    /\ calls' = Append(calls, "model")
    /\ pc' = "second"
    /\ UNCHANGED <<err, res>>

\* The first model call settles; the handler runs to its next await or to
\* its response.
Dispatch(o, d) ==
    IF firstMessage(o).thrown
    THEN Fail(firstMessage(o).message) /\ UNCHANGED <<calls, fn, data>>
    ELSE IF ~Truthy(firstMessage(o).value.function_call)
    THEN /\ res' = replyOnly(firstMessage(o).value)
         /\ pc' = "done"
         /\ UNCHANGED <<calls, fn, data, err>>
    ELSE IF d.thrown
    THEN Fail(d.message) /\ UNCHANGED <<calls, fn, data>>
    ELSE IF d.fetch
    THEN /\ fn' = [tool |-> d.tool, gql |-> d.gql]
         /\ calls' = Append(calls, "commerce")
         /\ pc' = "fetch"
         /\ UNCHANGED <<data, err, res>>
    ELSE AskAgain(d.value) /\ UNCHANGED fn

FirstAnswer ==
    /\ pc = "first"
    /\ \E o \in FirstOutcomes :
        /\ first' = o
        /\ Dispatch(o, IF firstMessage(o).thrown
                          \/ ~Truthy(firstMessage(o).value.function_call)
                       THEN Undefined
                       ELSE IF variant = "vercel"
                       THEN dispatchVercel(firstMessage(o).value.function_call,
                                           SHOPIFY_STORE, SHOPIFY_TOKEN)
                       ELSE dispatchExpress(firstMessage(o).value.function_call,
                                            SHOPIFY_STORE, SHOPIFY_TOKEN))
    /\ UNCHANGED <<variant, SHOPIFY_STORE, SHOPIFY_TOKEN, req, fetched, second>>

\* The fetch settles: callShopify and the tool finish, then the second model
\* call is issued, unless something threw.
FetchAnswer ==
    /\ pc = "fetch"
    /\ \E o \in FetchOutcomes(fn.gql) :
        /\ fetched' = o
        /\ IF toolResult(variant, fn.tool, o).thrown
           THEN Fail(toolResult(variant, fn.tool, o).message) /\ UNCHANGED <<calls, data>>
           ELSE AskAgain(toolResult(variant, fn.tool, o).value)
    /\ UNCHANGED <<variant, SHOPIFY_STORE, SHOPIFY_TOKEN, req, first, fn, second>>

\* The second model call settles: the response is sent.
SecondAnswer ==
    /\ pc = "second"
    /\ \E o \in SecondOutcomes :
        /\ second' = o
        /\ IF firstMessage(o).thrown
           THEN Fail(firstMessage(o).message)
           ELSE /\ res' = replyWithData(firstMessage(o).value, data)
                /\ pc' = "done"
                /\ UNCHANGED err
    /\ UNCHANGED <<variant, SHOPIFY_STORE, SHOPIFY_TOKEN, req, calls, first, fn,
                   fetched, data>>

Next == Request \/ FirstAnswer \/ FetchAnswer \/ SecondAnswer

Spec == Init /\ [][Next]_vars

\* ================================================================ properties
\* What the turn's history says, in the terms of the two external services.
Count(api) == Cardinality({i \in 1..Len(calls) : calls[i] = api})

\* The model's first answer came with a message.
Answered == first # Undefined /\ first.kind = "resolves" /\ Len(first.choices) > 0

FirstMsg == first.choices[1].message

\* That message nominates a tool.
Nominates == Answered /\ FirstMsg.function_call # Undefined

\* A model call failed: it rejected, or its answer has no choice to read.
ModelFailed(o) == o # Undefined /\ (o.kind = "rejects" \/ Len(o.choices) = 0)

\* The commerce endpoint answered with this HTTP status and a JSON body.
AnsweredJson == fetched # Undefined /\ fetched.kind = "resolves" /\ fetched.body.parses

\* The commerce call failed by throwing: the network, a body that is not
\* JSON, or an `errors` member that is set.
CommerceThrew ==
    /\ fetched # Undefined
    /\ \/ fetched.kind = "rejects"
       \/ ~fetched.body.parses
       \/ fetched.body.errors \notin {Undefined, Null}

\* The commerce endpoint answered with a status outside 2xx.
Non2xx == fetched # Undefined /\ fetched.kind = "resolves" /\ fetched.status # 200

\* The credentials are missing from the environment.
NoCredentials == SHOPIFY_STORE = Undefined \/ SHOPIFY_TOKEN = Undefined

\* The response is a failure that carries the error and nothing else.
FailureOnly ==
    /\ pc = "done"
    /\ res.status = 500
    /\ Has(res.body, "error")
    /\ ~Has(res.body, "reply")
    /\ ~Has(res.body, "data")

\* The response is the reply composed over the tool's data.
ReplyAndData ==
    /\ pc = "done"
    /\ res.status = 200
    /\ res.body = Obj({<<"reply", second.choices[1].message.content>>, <<"data", data>>})

\* Argument strings that are JSON.
IsJson == {Str("{}"), Str(ArgsCoffee), Str(ArgsEmail), Str("null"), Str("1")}

\* The argument values that reach the tool: JSON (for the serverless handler
\* also an empty or absent string), and not JSON null when the tool takes a
\* parameter.
ArgsLetThrough ==
    /\ \/ FirstMsg.function_call.arguments \in IsJson
       \/ /\ variant = "vercel"
          /\ FirstMsg.function_call.arguments \in {Undefined, Str("")}
    /\ FirstMsg.function_call.name \in {"find_product", "get_customer_orders"}
        => FirstMsg.function_call.arguments # Str("null")

\* No call failed: neither model call, nor the commerce call (by throwing,
\* by a status outside 2xx, or by the credentials check).
NoCallFailed ==
    /\ ~ModelFailed(first)
    /\ ~ModelFailed(second)
    /\ ~CommerceThrew
    /\ ~Non2xx
    /\ ~(variant = "express" /\ NoCredentials)

\* C1 as stated: a turn that ended, where the first answer nominates a catalog
\* tool and no call failed, made one commerce call and two model calls and
\* answers with `reply` (the second answer's text) and `data` (the tool result).
C1_AsStated ==
    (pc = "done" /\ Nominates /\ FirstMsg.function_call.name \in Catalog
        /\ NoCallFailed)
    => (Count("commerce") = 1 /\ Count("model") = 2 /\ ReplyAndData)

\* C1 amended: the same, for argument values the handler's parse step lets
\* through to the tool.
C1_KnownTool ==
    (pc = "done" /\ Nominates /\ FirstMsg.function_call.name \in Catalog
        /\ ArgsLetThrough /\ NoCallFailed)
    => (calls = <<"model", "commerce", "model">> /\ ReplyAndData)

C1_Witness ==
    /\ pc = "done" /\ Nominates /\ FirstMsg.function_call.name = "find_product"
    /\ FirstMsg.function_call.arguments = Str(ArgsCoffee)
    /\ variant = "express" /\ NoCallFailed
    /\ Len(data.products.v) = 2
    /\ res.status = 200 /\ Has(res.body, "data")

\* C2: when the first answer carries no tool invocation, the turn made one
\* model call and no commerce call, and the response is the single field
\* `reply` holding the first answer's text.
C2_NoTool ==
    (Answered /\ ~Nominates)
    => /\ pc = "done"
       /\ calls = <<"model">>
       /\ res = [status |-> 200, body |-> Obj({<<"reply", FirstMsg.content>>})]

C2_Witness ==
    /\ Answered /\ ~Nominates /\ pc = "done"
    /\ res.status = 200 /\ ~Has(res.body, "data")

\* C3: when the commerce body carries a top-level `errors` list, the turn
\* fails with a message carrying that list and no second model call is made.
C3_ErrorsList ==
    (AnsweredJson /\ fetched.body.errors.js = "array")
    => /\ FailureOnly
       /\ Get(res.body, "error").json = fetched.body.errors
       /\ calls = <<"model", "commerce">>

C3_Witness ==
    /\ AnsweredJson /\ fetched.body.errors = Arr(<<>>) /\ fetched.status = 200
    /\ pc = "done" /\ res.status = 500

\* C4: when the first answer nominates a name outside the catalog, the turn
\* fails and neither a commerce call nor a second model call is made.
C4_UnknownTool ==
    (Nominates /\ FirstMsg.function_call.name \notin Catalog)
    => (FailureOnly /\ calls = <<"model">>)

\* Strings that are not JSON.
NotJson == {Str(""), Str("{bad")}

LacksMessage ==
    \/ req.body = Undefined
    \/ ~Has(req.body, "message")
    \/ Get(req.body, "message").js # "string"
    \/ Get(req.body, "message") = Str("")

\* C6: a request without a non-empty string `message` is rejected before any
\* call to the model or to the commerce endpoint.
C6_Rejected == LacksMessage => (calls = <<>> /\ pc \in {"start", "done"})

\* C7: once a model call or the commerce call has failed (a throw, or a
\* status outside 2xx), the turn is over: no call follows it, no call was
\* made twice, and the response is the failure alone.
C7_Abort ==
    (ModelFailed(first) \/ CommerceThrew \/ Non2xx \/ ModelFailed(second))
    => /\ FailureOnly
       /\ Count("commerce") <= 1
       /\ calls \in {<<"model">>, <<"model", "commerce">>, <<"model", "model">>,
                     <<"model", "commerce", "model">>}
       /\ (ModelFailed(first) => calls = <<"model">>)
       /\ (CommerceThrew \/ Non2xx => calls = <<"model", "commerce">>)

\* C7 for the failures that throw (a status outside 2xx left aside): these
\* do end the turn with the failure alone and no further call.
C7_ThrownAbort ==
    (ModelFailed(first) \/ CommerceThrew \/ ModelFailed(second))
    => /\ FailureOnly
       /\ (ModelFailed(first) => calls = <<"model">>)
       /\ (CommerceThrew => calls = <<"model", "commerce">>)
       /\ (ModelFailed(second) => Count("model") = 2 /\ Count("commerce") <= 1)

\* C8: a commerce answer with a status outside 2xx fails the turn, and no
\* second model call is made, whatever the body.
C8_Non2xx == Non2xx => (FailureOnly /\ calls = <<"model", "commerce">>)

\* C9: with the store domain or the token missing, no request goes to the
\* commerce endpoint: a tool's execution fails on the configuration first.
C9_FailFast == NoCredentials => Count("commerce") = 0

\* The cap of five on an array of orders.
OrdersCapped(orders) ==
    /\ Len(orders.v) <= 5
    /\ \A i \in 1..Len(orders.v) :
        /\ Len(orders.v[i].items.v) <= 5
        /\ \A k \in 1..Len(orders.v[i].fulfillments.v) :
            Len(orders.v[i].fulfillments.v[k].tracking.v) <= 5

RootOf == fetched.body.data[fn.gql.root]

\* The commerce endpoint answered successfully and nothing matched: no data,
\* a null root field, no edges list, or an empty one.
NoMatch ==
    /\ AnsweredJson
    /\ fetched.status = 200
    /\ fetched.body.errors \in {Undefined, Null}
    /\ \/ fetched.body.data \in {Undefined, Null}
       \/ RootOf = Null
       \/ RootOf.edges = Undefined
       \/ Len(RootOf.edges.v) = 0

\* The empty result in each variant's shape: a bare empty array, or the
\* empty array under `products` / `customers`.
EmptyResult ==
    IF variant = "vercel" THEN Arr(<<>>)
    ELSE IF fn.tool = "getCustomerOrders" THEN [customers |-> Arr(<<>>)]
    ELSE [products |-> Arr(<<>>)]

\* C11: when the commerce endpoint answers successfully and nothing matches
\* (no customer, no product, no data, no edges list), the tool returns the
\* empty result and raises nothing: the second model call is made, and once
\* it answers the response carries `reply` and the empty `data`.
C11_EmptyNotError ==
    NoMatch
    => /\ data = EmptyResult
       /\ calls = <<"model", "commerce", "model">>
       /\ pc \in {"second", "done"}
       /\ (pc = "done" /\ ~ModelFailed(second)
            => ReplyAndData /\ Get(res.body, "data") = EmptyResult)

C11_Witness ==
    /\ NoMatch /\ pc = "done" /\ res.status = 200
    /\ variant = "vercel" /\ fn.tool = "getCustomerOrders"
    /\ fetched.body.data # Undefined /\ fetched.body.data # Null
    /\ RootOf # Null /\ RootOf.edges = Arr(<<>>)
    /\ Get(res.body, "data") = Arr(<<>>)

\* find_product ran and the commerce endpoint returned a list of products.
FoundProducts ==
    /\ AnsweredJson
    /\ fn.tool = "findProduct"
    /\ fetched.body.errors \in {Undefined, Null}
    /\ fetched.body.data \notin {Undefined, Null}
    /\ RootOf # Null
    /\ RootOf.edges # Undefined

\* The flattened record of a product node as received: its scalar fields,
\* its first image (or null) and its minimum variant price.
Flattened(node) ==
    [id |-> node.id, title |-> node.title, description |-> node.description,
     image |-> IF node.images.edges = Arr(<<>>) THEN Null
               ELSE node.images.edges.v[1].node,
     price |-> node.priceRange.minVariantPrice.amount,
     currency |-> node.priceRange.minVariantPrice.currencyCode]

\* The N products received, flattened, in the order received.
ReceivedProducts == Arr([i \in 1..Len(RootOf.edges.v) |-> Flattened(RootOf.edges.v[i].node)])

\* C12 as stated: when find_product ran and the endpoint returned N products,
\* `data` has a `products` sequence of exactly those N flattened records, in
\* order, in both variants.
C12_AsStated ==
    FoundProducts
    => /\ "products" \in DOMAIN data
       /\ data.products = ReceivedProducts

\* C12 amended: the N flattened records, in order, are `data.products` in the
\* Express variant and `data` itself (a bare array) in the serverless one;
\* the response that follows the second model answer carries that `data`.
C12_FoundProducts ==
    FoundProducts
    => /\ IF variant = "express"
          THEN data = [products |-> ReceivedProducts]
          ELSE data = ReceivedProducts
       /\ (pc = "done" /\ ~ModelFailed(second) => Get(res.body, "data") = data)

C12_Witness ==
    /\ FoundProducts /\ pc = "done" /\ res.status = 200
    /\ variant = "express"
    /\ Len(RootOf.edges.v) = 2
    /\ Len(Get(res.body, "data").products.v) = 2
    /\ Get(res.body, "data").products.v[1].id = 1
    /\ Get(res.body, "data").products.v[1].image # Null
    /\ Get(res.body, "data").products.v[2].id = 2
====
